---- MODULE Spec2Model ----
(***************************************************************************)
(* A model of the expected-delivery-date service of src/index.js: the      *)
(* GET /edd handler with its helpers (client address detection, private    *)
(* address filter, pincode validation, geolocation fallback chain, carrier *)
(* transit-time client, delivery date arithmetic) and the GET /ipdebug     *)
(* route.                                                                  *)
(*                                                                         *)
(* A JavaScript string is a sequence of one-character strings.  A          *)
(* JavaScript value is a record [t, i, h, s]: t is its kind, i and h hold  *)
(* a finite number i + (IF h THEN 1/2 ELSE 0), s holds a string.           *)
(***************************************************************************)
EXTENDS Integers, Sequences, FiniteSets, TLC

(***************************************************************************)
(* Bounds of the model.                                                    *)
(***************************************************************************)
\* transit-day counts of the carrier range over -MaxTat .. MaxTat
MaxTat == 3
\* blanks put around a query pin or a provider's postal code: 0 .. MaxPad
MaxPad == 1

(***************************************************************************)
(* Program constants.                                                      *)
(***************************************************************************)
\* /^\d{6}$/
PinLen == 6
\* pickupDate.getHours() >= 15
CutoffHour == 15

(***************************************************************************)
(* Strings.                                                                *)
(***************************************************************************)
WS == {" "}

Digits == {"0", "1", "2", "3", "4", "5", "6", "7", "8", "9"}

DigitVal(c) ==
  CASE c = "0" -> 0 [] c = "1" -> 1 [] c = "2" -> 2 [] c = "3" -> 3
    [] c = "4" -> 4 [] c = "5" -> 5 [] c = "6" -> 6 [] c = "7" -> 7
    [] c = "8" -> 8 [] c = "9" -> 9

DigitChar(d) ==
  CASE d = 0 -> "0" [] d = 1 -> "1" [] d = 2 -> "2" [] d = 3 -> "3"
    [] d = 4 -> "4" [] d = 5 -> "5" [] d = 6 -> "6" [] d = 7 -> "7"
    [] d = 8 -> "8" [] d = 9 -> "9"

RECURSIVE TrimLeft(_)
TrimLeft(s) == IF s # <<>> /\ Head(s) \in WS THEN TrimLeft(Tail(s)) ELSE s

RECURSIVE TrimRight(_)
TrimRight(s) ==
  IF s # <<>> /\ s[Len(s)] \in WS THEN TrimRight(SubSeq(s, 1, Len(s) - 1)) ELSE s

\* String.prototype.trim
Trim(s) == TrimRight(TrimLeft(s))

\* String.prototype.startsWith
StartsWith(s, p) == Len(s) >= Len(p) /\ SubSeq(s, 1, Len(p)) = p

\* the least index of character c in s, 0 when s does not hold it
IndexOf(s, c) ==
  IF \E k \in 1..Len(s) : s[k] = c
    THEN CHOOSE k \in 1..Len(s) : s[k] = c /\ \A j \in 1..(k - 1) : s[j] # c
    ELSE 0

\* s.includes(c)
Includes(s, c) == IndexOf(s, c) # 0

\* s.split(c): the parts of s between the occurrences of c
RECURSIVE Split(_, _)
Split(s, c) ==
  LET k == IndexOf(s, c)
  IN IF k = 0 THEN <<s>>
     ELSE <<SubSeq(s, 1, k - 1)>> \o Split(SubSeq(s, k + 1, Len(s)), c)

AllDigits(s) == \A k \in 1..Len(s) : s[k] \in Digits

\* the number a string of decimal digits denotes
RECURSIVE DecValue(_)
DecValue(s) ==
  IF s = <<>> THEN 0
  ELSE 10 * DecValue(SubSeq(s, 1, Len(s) - 1)) + DigitVal(s[Len(s)])

\* the decimal digits of a natural number
RECURSIVE Dec(_)
Dec(n) == IF n < 10 THEN <<DigitChar(n)>> ELSE Dec(n \div 10) \o <<DigitChar(n % 10)>>

\* the decimal digits of n, padded with zeros to w characters
Pad(n, w) == IF Len(Dec(n)) >= w THEN Dec(n) ELSE
  LET RECURSIVE Z(_)
      Z(k) == IF k = 0 THEN <<>> ELSE <<"0">> \o Z(k - 1)
  IN Z(w - Len(Dec(n))) \o Dec(n)

(***************************************************************************)
(* JavaScript values.                                                      *)
(***************************************************************************)
JsUndef == [t |-> "undefined", i |-> 0, h |-> FALSE, s |-> <<>>]
JsNull == [t |-> "null", i |-> 0, h |-> FALSE, s |-> <<>>]
JsNaN == [t |-> "NaN", i |-> 0, h |-> FALSE, s |-> <<>>]
JsInf == [t |-> "Infinity", i |-> 0, h |-> FALSE, s |-> <<>>]
JsNegInf == [t |-> "-Infinity", i |-> 0, h |-> FALSE, s |-> <<>>]
JsObj == [t |-> "object", i |-> 0, h |-> FALSE, s |-> <<>>]
JsTrue == [t |-> "boolean", i |-> 1, h |-> FALSE, s |-> <<>>]
JsNum(n) == [t |-> "number", i |-> n, h |-> FALSE, s |-> <<>>]
\* the number n + 1/2
JsNumHalf(n) == [t |-> "number", i |-> n, h |-> TRUE, s |-> <<>>]
JsStr(str) == [t |-> "string", i |-> 0, h |-> FALSE, s |-> str]

\* ToBoolean: what `if (v)`, `!v` and `v || w` test
Truthy(v) ==
  CASE v.t \in {"undefined", "null", "NaN"} -> FALSE
    [] v.t = "boolean" -> v.i = 1
    [] v.t = "number" -> v.i # 0 \/ v.h
    [] v.t = "string" -> v.s # <<>>
    [] OTHER -> TRUE

\* v || w
Or(v, w) == IF Truthy(v) THEN v ELSE w

InfinityText == <<"I", "n", "f", "i", "n", "i", "t", "y">>

\* the text of a finite number i + (IF h THEN 1/2 ELSE 0)
NumText(i, h) ==
  IF i >= 0 THEN Dec(i) \o (IF h THEN <<".", "5">> ELSE <<>>)
  ELSE IF h THEN <<"-">> \o Dec(-i - 1) \o <<".", "5">>
  ELSE <<"-">> \o Dec(-i)

\* String(v)
ToStr(v) ==
  CASE v.t = "string" -> v.s
    [] v.t = "number" -> NumText(v.i, v.h)
    [] v.t = "undefined" -> <<"u", "n", "d", "e", "f", "i", "n", "e", "d">>
    [] v.t = "null" -> <<"n", "u", "l", "l">>
    [] v.t = "NaN" -> <<"N", "a", "N">>
    [] v.t = "Infinity" -> InfinityText
    [] v.t = "-Infinity" -> <<"-">> \o InfinityText
    [] v.t = "boolean" ->
         IF v.i = 1 THEN <<"t", "r", "u", "e">> ELSE <<"f", "a", "l", "s", "e">>
    [] v.t = "object" ->
         <<"[", "o", "b", "j", "e", "c", "t", " ", "O", "b", "j", "e", "c", "t", "]">>

\* an unsigned decimal literal: digits, then an optional fraction that is
\* zeros or a 5 followed by zeros (the fractions the inputs use)
IsDecimal(s) ==
  LET k == IndexOf(s, ".")
      ip == IF k = 0 THEN s ELSE SubSeq(s, 1, k - 1)
      fp == IF k = 0 THEN <<>> ELSE SubSeq(s, k + 1, Len(s))
  IN /\ ip # <<>> /\ AllDigits(ip) /\ AllDigits(fp)
     /\ \A j \in 1..Len(fp) : fp[j] = "0" \/ (j = 1 /\ fp[j] = "5")

DecimalValue(s, neg) ==
  LET k == IndexOf(s, ".")
      ip == IF k = 0 THEN s ELSE SubSeq(s, 1, k - 1)
      fp == IF k = 0 THEN <<>> ELSE SubSeq(s, k + 1, Len(s))
      half == fp # <<>> /\ fp[1] = "5"
      n == DecValue(ip)
  IN IF ~neg THEN [t |-> "number", i |-> n, h |-> half, s |-> <<>>]
     ELSE IF half THEN JsNumHalf(-n - 1) ELSE JsNum(-n)

\* Number(string): StringToNumber of the trimmed text
StringToNumber(str) ==
  LET s == Trim(str)
      signed == s # <<>> /\ Head(s) \in {"+", "-"}
      neg == s # <<>> /\ Head(s) = "-"
      body == IF signed THEN Tail(s) ELSE s
  IN IF s = <<>> THEN JsNum(0)
     ELSE IF body = InfinityText THEN (IF neg THEN JsNegInf ELSE JsInf)
     ELSE IF IsDecimal(body) THEN DecimalValue(body, neg)
     ELSE JsNaN

\* Number(v)
ToNumber(v) ==
  CASE v.t \in {"number", "NaN", "Infinity", "-Infinity"} -> v
    [] v.t = "string" -> StringToNumber(v.s)
    [] v.t = "null" -> JsNum(0)
    [] v.t = "boolean" -> JsNum(v.i)
    [] OTHER -> JsNaN

(***************************************************************************)
(* Comparisons of a JavaScript number with an integer.                     *)
(***************************************************************************)
\* v >= n
NumGE(v, n) ==
  CASE v.t = "number" -> v.i >= n
    [] v.t = "Infinity" -> TRUE
    [] OTHER -> FALSE

\* v <= n
NumLE(v, n) ==
  CASE v.t = "number" -> v.i < n \/ (v.i = n /\ ~v.h)
    [] v.t = "-Infinity" -> TRUE
    [] OTHER -> FALSE

(***************************************************************************)
(* Helpers of src/index.js.                                                *)
(***************************************************************************)
\* /^\d{6}$/.test(String(pin || "").trim())
isValidPin(pin) ==
  LET s == Trim(ToStr(Or(pin, JsStr(<<>>))))
  IN Len(s) = PinLen /\ AllDigits(s)

\* getClientIp with cf-connecting-ip looked at before x-forwarded-for
getClientIpCfFirst(req) ==
  IF Truthy(req.xreal) THEN Trim(ToStr(req.xreal))
  ELSE IF Truthy(req.cf) THEN Trim(ToStr(req.cf))
  ELSE IF Truthy(req.xff) THEN Trim(Split(ToStr(req.xff), ",")[1])
  ELSE Trim(ToStr(Or(Or(req.ip, req.remote), JsStr(<<>>))))

\* a request: the three proxy headers, Express's req.ip and the socket's
\* remote address, each a string or undefined
getClientIp(req) ==
  IF Truthy(req.xreal) THEN Trim(ToStr(req.xreal))
  ELSE IF Truthy(req.xff) THEN Trim(Split(ToStr(req.xff), ",")[1])
  ELSE IF Truthy(req.cf) THEN Trim(ToStr(req.cf))
  ELSE Trim(ToStr(Or(Or(req.ip, req.remote), JsStr(<<>>))))

MappedPrefix == <<":", ":", "f", "f", "f", "f", ":">>

normalizeIp(ip) ==
  IF ip = <<>> THEN <<>>
  ELSE LET s0 == Trim(ip)
           s1 == IF StartsWith(s0, MappedPrefix)
                   THEN SubSeq(s0, Len(MappedPrefix) + 1, Len(s0)) ELSE s0
       IN IF Includes(s1, "%") THEN Split(s1, "%")[1] ELSE s1

\* isPrivateIp with the 172 block cut short: second < 31
isPrivateIpNarrow(ip) ==
  IF ip = <<>> THEN TRUE
  ELSE LET s == Trim(ip)
       IN \/ s = <<"1", "2", "7", ".", "0", ".", "0", ".", "1">>
          \/ s = <<":", ":", "1">>
          \/ StartsWith(s, <<"1", "0", ".">>)
          \/ StartsWith(s, <<"1", "9", "2", ".", "1", "6", "8", ".">>)
          \/ /\ StartsWith(s, <<"1", "7", "2", ".">>)
             /\ LET second == StringToNumber(Split(s, ".")[2])
                IN NumGE(second, 16) /\ NumLE(second, 30)

isPrivateIp(ip) ==
  IF ip = <<>> THEN TRUE
  ELSE LET s == Trim(ip)
       IN \/ s = <<"1", "2", "7", ".", "0", ".", "0", ".", "1">>
          \/ s = <<":", ":", "1">>
          \/ StartsWith(s, <<"1", "0", ".">>)
          \/ StartsWith(s, <<"1", "9", "2", ".", "1", "6", "8", ".">>)
          \/ /\ StartsWith(s, <<"1", "7", "2", ".">>)
             /\ LET second == StringToNumber(Split(s, ".")[2])
                IN NumGE(second, 16) /\ NumLE(second, 31)

(***************************************************************************)
(* Provider replies.  A JSON document is an object with the fields the     *)
(* code reads (postal, tat, data.tat, response.tat), the document null, or *)
(* a truthy scalar; data and response are themselves undefined, null, a    *)
(* scalar or an object with a tat field.                                   *)
(***************************************************************************)
SubDoc(kind, tat) == [t |-> kind, tat |-> tat]

NoSub == SubDoc("undefined", JsUndef)

Doc(kind, postal, tat, data, response) ==
  [t |-> kind, postal |-> postal, tat |-> tat, data |-> data, response |-> response]

NullDoc == Doc("null", JsUndef, JsUndef, NoSub, NoSub)

\* json?.postal
GetPostal(json) == IF json.t = "object" THEN json.postal ELSE JsUndef

\* json?.tat
GetTat(json) == IF json.t = "object" THEN json.tat ELSE JsUndef

\* json?.data?.tat and json?.response?.tat
GetSubTat(json, sub) == IF json.t = "object" /\ sub.t = "object" THEN sub.tat ELSE JsUndef

\* a reply to fetch: the call is rejected (network failure), or answers with
\* a status (ok: 2xx) and a body that cannot be read, is no JSON, or is JSON
Reply(kind, ok, text, doc) == [kind |-> kind, ok |-> ok, text |-> text, doc |-> doc]

\* what safeFetchJson does with the reply: raises, or returns {ok, json}
safeFetchJson(reply) ==
  IF reply.kind = "rejected" \/ reply.text = "unreadable"
    THEN [thrown |-> TRUE, ok |-> FALSE, json |-> NullDoc]
  ELSE IF reply.text = "garbage"
    THEN [thrown |-> FALSE, ok |-> FALSE, json |-> NullDoc]
  ELSE [thrown |-> FALSE, ok |-> reply.ok, json |-> reply.doc]

\* PostalOf returning String(pin) without the trim
PostalOfUntrimmed(r) ==
  IF r.ok /\ isValidPin(GetPostal(r.json))
    THEN JsStr(ToStr(GetPostal(r.json)))
    ELSE JsNull

\* ipToPincode, after a provider's answer: the pincode it returns, or null
\* to go on
PostalOf(r) ==
  IF r.ok /\ isValidPin(GetPostal(r.json))
    THEN JsStr(Trim(ToStr(GetPostal(r.json))))
    ELSE JsNull

\* getDelhiveryTatDays, after the carrier's answer
TatOf(r) ==
  IF ~r.ok \/ r.json.t = "null" THEN JsNull
  ELSE LET tat == Or(Or(GetTat(r.json), GetSubTat(r.json, r.json.data)),
                     GetSubTat(r.json, r.json.response))
           tatNum == ToNumber(tat)
       IN IF ~Truthy(tat) \/ tatNum.t = "NaN" THEN JsNull ELSE tatNum

(***************************************************************************)
(* Dates.  A Date is a time value in minutes since the epoch (UTC), or     *)
(* invalid; the local time is the time value plus the zone's offset.       *)
(***************************************************************************)
\* the day number (days since 1970-01-01) of a civil date
DaysFromCivil(y0, m, d) ==
  LET y == IF m <= 2 THEN y0 - 1 ELSE y0
      era == y \div 400
      yoe == y - era * 400
      doy == (153 * (IF m > 2 THEN m - 3 ELSE m + 9) + 2) \div 5 + d - 1
      doe == yoe * 365 + yoe \div 4 - yoe \div 100 + doy
  IN era * 146097 + doe - 719468

\* the civil date of a day number
CivilFromDays(z0) ==
  LET z == z0 + 719468
      era == z \div 146097
      doe == z - era * 146097
      yoe == (doe - doe \div 1460 + doe \div 36524 - doe \div 146096) \div 365
      doy == doe - (365 * yoe + yoe \div 4 - yoe \div 100)
      mp == (5 * doy + 2) \div 153
      d == doy - (153 * mp + 2) \div 5 + 1
      m == IF mp < 10 THEN mp + 3 ELSE mp - 9
  IN [y |-> yoe + era * 400 + (IF m <= 2 THEN 1 ELSE 0), m |-> m, d |-> d]

InvalidDate == [valid |-> FALSE, t |-> 0]

\* new Date(), the clock reading local date c.y-c.m-c.d, c.hh:c.mi, in a
\* zone tz minutes east of UTC
NewDate(c, tz) ==
  [valid |-> TRUE, t |-> DaysFromCivil(c.y, c.m, c.d) * 1440 + c.hh * 60 + c.mi - tz]

LocalDay(date, tz) == (date.t + tz) \div 1440

\* Date.prototype.getHours
getHours(date, tz) == ((date.t + tz) % 1440) \div 60

\* Date.prototype.getDate
getDate(date, tz) == CivilFromDays(LocalDay(date, tz)).d

\* Date.prototype.setDate(getDate() + n), n a JavaScript number: the day
\* of the month is truncated to an integer, a non-finite one invalidates
setDatePlus(date, n, tz) ==
  IF ~date.valid \/ n.t # "number" THEN InvalidDate
  ELSE LET c == CivilFromDays(LocalDay(date, tz))
           sum == c.d + n.i
           dt == IF sum < 0 /\ n.h THEN sum + 1 ELSE sum
           day == DaysFromCivil(c.y, c.m, 1) + dt - 1
       IN [valid |-> TRUE, t |-> day * 1440 + ((date.t + tz) % 1440) - tz]

\* toISOString().slice(0, 10): the UTC date, as YYYY-MM-DD
toISODate(date) ==
  LET c == CivilFromDays(date.t \div 1440)
  IN Pad(c.y, 4) \o <<"-">> \o Pad(c.m, 2) \o <<"-">> \o Pad(c.d, 2)

WeekdayNames == <<"Sun", "Mon", "Tue", "Wed", "Thu", "Fri", "Sat">>

MonthNames ==
  <<"Jan", "Feb", "Mar", "Apr", "May", "Jun", "Jul", "Aug", "Sep", "Oct", "Nov", "Dec">>

\* toLocaleDateString("en-IN", {weekday: "short", day: "2-digit", month: "short"}):
\* the local date's weekday, day and month
formatDate(date, tz) ==
  LET z == LocalDay(date, tz)
      c == CivilFromDays(z)
  IN [weekday |-> WeekdayNames[((z + 4) % 7) + 1], day |-> Pad(c.d, 2),
      month |-> MonthNames[c.m]]

(***************************************************************************)
(* Inputs.                                                                 *)
(***************************************************************************)
RECURSIVE Blanks(_)
Blanks(k) == IF k = 0 THEN <<>> ELSE <<" ">> \o Blanks(k - 1)

\* s with k blanks on either side
Padded(s, k) == Blanks(k) \o s \o Blanks(k)

ValidPinText == <<"4", "1", "1", "0", "0", "5">>

\* req.query.pin: absent, empty, blank, a pincode (padded), and near misses
QueryPins ==
  {JsUndef, JsStr(<<>>)}
    \cup {JsStr(Padded(ValidPinText, k)) : k \in 0..MaxPad}
    \cup {JsStr(Blanks(k)) : k \in 1..MaxPad}
    \cup {JsStr(<<"4", "1", "1", "0", "0">>),
          JsStr(<<"4", "1", "1", "0", "0", "5", "6">>),
          JsStr(<<"4", "1", "1", "o", "0", "5">>)}

Dotted(a, b, c, d) == Dec(a) \o <<".">> \o Dec(b) \o <<".">> \o Dec(c) \o <<".">> \o Dec(d)

\* IPv4 addresses on both sides of every range the filter tests
V4Addresses ==
  {Dotted(10, 0, 0, 1), Dotted(10, 168, 0, 1), Dotted(11, 0, 0, 1),
   Dotted(127, 0, 0, 1), Dotted(8, 8, 8, 8),
   Dotted(172, 15, 0, 1), Dotted(172, 16, 0, 1), Dotted(172, 31, 0, 1),
   Dotted(172, 32, 0, 1), Dotted(192, 168, 0, 1), Dotted(192, 169, 0, 1)}

\* the addresses a socket reports: IPv4, IPv4-mapped IPv6, IPv6 with a zone
PeerAddresses ==
  V4Addresses
    \cup {MappedPrefix \o a : a \in {Dotted(10, 0, 0, 1), Dotted(8, 8, 8, 8),
                                      Dotted(127, 0, 0, 1), Dotted(172, 31, 0, 1)}}
    \cup {<<":", ":", "1">>,
          <<"f", "e", "8", "0", ":", ":", "1", "%", "e", "t", "h", "0">>,
          Dotted(192, 168, 0, 1) \o <<"%", "1">>}

PublicText == Dotted(8, 8, 8, 8)
PrivateText == Dotted(10, 0, 0, 1)
OtherPublicText == Dotted(11, 0, 0, 1)

\* x-real-ip and cf-connecting-ip: absent, empty, one address
RealIpValues == {JsUndef, JsStr(<<>>), JsStr(PrivateText), JsStr(PublicText)}

ConnectingIpValues == {JsUndef, JsStr(<<>>), JsStr(PublicText)}

\* x-forwarded-for: absent, empty, a chain, a chain whose first entry is empty
ForwardedValues ==
  {JsUndef, JsStr(<<>>), JsStr(OtherPublicText),
   JsStr(PrivateText \o <<",", " ">> \o PublicText),
   JsStr(OtherPublicText \o <<" ", ",">> \o PrivateText),
   JsStr(<<",", " ">> \o PublicText)}

\* the peer: req.ip and req.socket.remoteAddress
Peers ==
  {[ip |-> JsUndef, remote |-> JsUndef], [ip |-> JsStr(<<>>), remote |-> JsStr(PublicText)]}
    \cup {[ip |-> JsStr(a), remote |-> JsStr(a)] : a \in PeerAddresses}
    \cup {[ip |-> JsUndef, remote |-> JsStr(a)] : a \in {PublicText, PrivateText}}

Requests ==
  {[xreal |-> x, xff |-> f, cf |-> c, ip |-> p.ip, remote |-> p.remote] :
     x \in RealIpValues, f \in ForwardedValues, c \in ConnectingIpValues, p \in Peers}

NoRequest ==
  [xreal |-> JsUndef, xff |-> JsUndef, cf |-> JsUndef, ip |-> JsUndef, remote |-> JsUndef]

PostalText == <<"4", "0", "0", "0", "0", "1">>

\* the postal field of a geolocation answer
PostalValues ==
  {JsUndef, JsNull, JsStr(<<>>), JsNum(400001), JsNum(4000), JsObj,
   JsStr(<<"4", "0", "0", "0">>), JsStr(<<"S", "W", "1", "A", " ", "1", "A", "A">>)}
    \cup {JsStr(Padded(PostalText, k)) : k \in 0..MaxPad}

GeoDoc(postal) == Doc("object", postal, JsUndef, NoSub, NoSub)

FetchFailures ==
  {Reply("rejected", FALSE, "unreadable", NullDoc),
   Reply("response", TRUE, "unreadable", NullDoc),
   Reply("response", TRUE, "garbage", NullDoc),
   Reply("response", FALSE, "garbage", NullDoc)}

GeoReplies ==
  FetchFailures
    \cup {Reply("response", ok, "json", GeoDoc(p)) : ok \in BOOLEAN, p \in PostalValues}
    \cup {Reply("response", TRUE, "json", NullDoc),
          Reply("response", TRUE, "json", Doc("scalar", JsUndef, JsUndef, NoSub, NoSub))}

\* the values a tat field takes
TatValues ==
  {JsNum(n) : n \in (0 - MaxTat)..MaxTat}
    \cup {JsUndef, JsNull, JsObj, JsTrue, JsInf, JsNumHalf(2), JsNumHalf(-1),
          JsStr(<<>>), JsStr(<<" ">>), JsStr(<<"2">>), JsStr(<<"-", "2">>),
          JsStr(<<"2", ".", "5">>), JsStr(<<"N", "/", "A">>), JsStr(InfinityText)}

SubValues ==
  {NoSub, SubDoc("null", JsUndef), SubDoc("scalar", JsUndef), SubDoc("object", JsUndef),
   SubDoc("object", JsNum(2)), SubDoc("object", JsStr(<<"3">>)),
   SubDoc("object", JsStr(<<"N", "/", "A">>))}

CarrierDocs ==
  {Doc("object", JsUndef, t, d, r) : t \in TatValues, d \in SubValues, r \in SubValues}
    \cup {NullDoc, Doc("scalar", JsUndef, JsUndef, NoSub, NoSub)}

\* the answers the handler is run against: every top-level value, and every
\* nested value under an absent top-level one
HandlerCarrierDocs ==
  {doc \in CarrierDocs :
     doc.t = "object" =>
       \/ doc.data = NoSub /\ doc.response = NoSub
       \/ doc.tat = JsUndef /\ (doc.data = NoSub \/ doc.response = NoSub)}

CarrierReplies ==
  FetchFailures \cup {Reply("response", ok, "json", doc) : ok \in BOOLEAN, doc \in CarrierDocs}

HandlerCarrierReplies ==
  {r \in CarrierReplies : r.text = "json" => r.doc \in HandlerCarrierDocs}

NoReply == Reply("none", FALSE, "unreadable", NullDoc)

\* the zone of the deployment, minutes east of UTC: UTC, India, US Eastern
TzOffsets == {0, 330, 0 - 300}

\* local clock readings: dates before a month's, a leap day's and a year's
\* end, each with its weekday; times around midnight, the zone offsets and
\* the cutoff
ClockDays ==
  {[y |-> 2024, m |-> 2, d |-> 28, wd |-> "Wed"],
   [y |-> 2024, m |-> 12, d |-> 31, wd |-> "Tue"],
   [y |-> 2023, m |-> 2, d |-> 27, wd |-> "Mon"]}

ClockTimes ==
  {[hh |-> 0, mi |-> 30], [hh |-> 10, mi |-> 0], [hh |-> 14, mi |-> 59],
   [hh |-> 15, mi |-> 0], [hh |-> 23, mi |-> 30]}

Clocks ==
  {[y |-> c.y, m |-> c.m, d |-> c.d, wd |-> c.wd, hh |-> t.hh, mi |-> t.mi] :
     c \in ClockDays, t \in ClockTimes}

NoClock == [y |-> 0, m |-> 0, d |-> 0, wd |-> "", hh |-> 0, mi |-> 0]

(***************************************************************************)
(* State: one request and the handler's locals.                            *)
(***************************************************************************)
VARIABLES
  cfg,            \* the process's configuration: IPINFO_TOKEN set or not, the zone
  pc,             \* idle, the call the handler awaits (ipinfo, ipapi, carrier), done;
                  \* tat_in and tat_out for getDelhiveryTatDays run on its own
  route,          \* the route of the request: none, edd, ipdebug
  query,          \* req.query.pin
  req,            \* the request /ipdebug answers
  rawIp,          \* getClientIp's result, undefined until it is called
  ip,             \* normalizeIp's result, undefined until it is called
  destinationPin, \* the handler's destinationPin
  resolvedFrom,   \* the handler's resolvedFrom
  pinFromIp,      \* ipToPincode's result, undefined until it returns
  tatDays,        \* getDelhiveryTatDays's result, undefined until it returns
  tatOutcome,     \* none, returned or raised: how getDelhiveryTatDays ended
  calls,          \* the outbound calls made, in order, each with its outcome
  hung,           \* the awaited call never settles
  carrier,        \* the carrier's answer getDelhiveryTatDays is run on (tat_in, tat_out)
  now,            \* the clock reading of new Date()
  caught,         \* the handler's catch block ran
  res,            \* the response sent
  responses,      \* the number of responses sent
  debug           \* the body /ipdebug sent

vars ==
  <<cfg, pc, route, query, req, rawIp, ip, destinationPin, resolvedFrom, pinFromIp,
    tatDays, tatOutcome, calls, hung, carrier, now, caught, res, responses, debug>>

NoLabel == [weekday |-> "", day |-> <<>>, month |-> ""]

NoRes ==
  [sent |-> FALSE, status |-> 0, ok |-> FALSE, message |-> "", pincode |-> <<>>,
   resolved_from |-> "", tat_days |-> JsUndef, edd |-> <<>>, label |-> NoLabel]

\* fail(res): res.json of the fixed body, with Express's default status
FailRes ==
  [sent |-> TRUE, status |-> 200, ok |-> FALSE, message |-> "Please enter pincode.",
   pincode |-> <<>>, resolved_from |-> "", tat_days |-> JsUndef, edd |-> <<>>,
   label |-> NoLabel]

\* a catch block that surfaces the fault: res.status(500) and the error's message
OnExceptionSurfaced == [FailRes EXCEPT !.status = 500, !.message = "Server error"]

\* the catch block of the handler
OnException == FailRes

\* the success payload
SuccessRes(pin, from, tat, edd, label) ==
  [sent |-> TRUE, status |-> 200, ok |-> TRUE, message |-> "", pincode |-> pin,
   resolved_from |-> from, tat_days |-> tat, edd |-> edd, label |-> label]

NoDebug ==
  [sent |-> FALSE, x_real_ip |-> JsUndef, x_forwarded_for |-> JsUndef,
   cf_connecting_ip |-> JsUndef, detected_ip |-> <<>>, req_ip |-> JsUndef]

\* (req.query.pin || "").toString().trim()
QueryPin(q) == Trim(ToStr(Or(q, JsStr(<<>>))))

\* the lookup made for an absent pin only
NeedsIpLookupWhenEmpty(pin) == pin = <<>>

\* if (!isValidPin(destinationPin)): the pincode is looked up from the address
NeedsIpLookup(pin) == ~isValidPin(JsStr(pin))

\* if (!ip || isPrivateIp(ip)) return fail(res)
Unusable(addr) == addr = <<>> \/ isPrivateIp(addr)

\* the first provider ipToPincode calls: ipinfo.io with a token, else ipapi.co
FirstProvider(token) == IF token THEN "ipinfo" ELSE "ipapi"

Call(to, arg) == [to |-> to, arg |-> arg, out |-> "pending"]

Settled(out) == [calls EXCEPT ![Len(calls)].out = out]

\* the delivery date of a request read at clock c, in zone tz, tat days on:
\* the Date the handler formats
DeliveryDate(c, tz, tat) ==
  LET pickupDate == NewDate(c, tz)
      shifted == IF getHours(pickupDate, tz) >= CutoffHour
                   THEN setDatePlus(pickupDate, JsNum(1), tz) ELSE pickupDate
  IN setDatePlus(shifted, tat, tz)

Init ==
  /\ cfg \in [token : BOOLEAN, tz : TzOffsets]
  /\ pc = "idle"
  /\ route = "none"
  /\ query = JsUndef
  /\ req = NoRequest
  /\ rawIp = JsUndef
  /\ ip = JsUndef
  /\ destinationPin = <<>>
  /\ resolvedFrom = ""
  /\ pinFromIp = JsUndef
  /\ tatDays = JsUndef
  /\ tatOutcome = "none"
  /\ calls = <<>>
  /\ hung = FALSE
  /\ carrier = NoReply
  /\ now = NoClock
  /\ caught = FALSE
  /\ res = NoRes
  /\ responses = 0
  /\ debug = NoDebug

Respond(r) == pc' = "done" /\ res' = r /\ responses' = responses + 1

(***************************************************************************)
(* GET /edd, up to its first await: the pin is read; a valid one goes to   *)
(* the carrier, otherwise the client address is detected and filtered and  *)
(* the first geolocation provider is called.                               *)
(***************************************************************************)
EddRequest ==
  /\ pc = "idle"
  /\ \E q \in QueryPins, r \in Requests :
       LET pin == QueryPin(q)
           raw == getClientIp(r)
           addr == normalizeIp(raw)
       IN /\ query' = q
          /\ route' = "edd"
          /\ IF ~NeedsIpLookup(pin)
               THEN /\ destinationPin' = pin
                    /\ resolvedFrom' = "query"
                    /\ calls' = <<Call("carrier", pin)>>
                    /\ pc' = "carrier"
                    /\ UNCHANGED <<rawIp, ip, res, responses>>
               ELSE /\ rawIp' = JsStr(raw)
                    /\ ip' = JsStr(addr)
                    /\ destinationPin' = pin
                    /\ resolvedFrom' = "query"
                    /\ IF Unusable(addr)
                         THEN Respond(FailRes) /\ UNCHANGED calls
                         ELSE /\ calls' = <<Call(FirstProvider(cfg.token), addr)>>
                              /\ pc' = FirstProvider(cfg.token)
                              /\ UNCHANGED <<res, responses>>
  /\ UNCHANGED <<cfg, req, pinFromIp, tatDays, tatOutcome, hung, carrier, now, caught, debug>>

\* ipToPincode returned pin to the handler: if (!pinFromIp) return fail(res),
\* else the carrier is called
Resolved(pin, out) ==
  /\ pinFromIp' = pin
  /\ IF ~Truthy(pin)
       THEN /\ calls' = Settled(out)
            /\ Respond(FailRes)
            /\ UNCHANGED <<destinationPin, resolvedFrom>>
       ELSE /\ destinationPin' = pin.s
            /\ resolvedFrom' = "ip"
            /\ calls' = Append(Settled(out), Call("carrier", pin.s))
            /\ pc' = "carrier"
            /\ UNCHANGED <<res, responses>>
  /\ UNCHANGED caught

\* an exception reaches the handler's catch block
Raised ==
  /\ calls' = Settled("raised")
  /\ caught' = TRUE
  /\ Respond(OnException)

(***************************************************************************)
(* ipinfo.io answers (or the call fails): a valid postal code is returned  *)
(* to the handler, anything else goes on to ipapi.co.                      *)
(***************************************************************************)
IpinfoReply ==
  /\ pc = "ipinfo" /\ ~hung
  /\ \E reply \in GeoReplies :
       LET r == safeFetchJson(reply)
       IN IF r.thrown
            THEN Raised /\ UNCHANGED <<destinationPin, resolvedFrom, pinFromIp>>
            ELSE IF Truthy(PostalOf(r))
              THEN Resolved(PostalOf(r), "pin")
              ELSE /\ calls' = Append(Settled("nopin"), Call("ipapi", ip.s))
                   /\ pc' = "ipapi"
                   /\ UNCHANGED <<destinationPin, resolvedFrom, pinFromIp, caught, res,
                                  responses>>
  /\ UNCHANGED <<cfg, route, query, req, rawIp, ip, tatDays, tatOutcome, hung, carrier,
                 now, debug>>

(***************************************************************************)
(* ipapi.co answers (or the call fails): ipToPincode returns the postal    *)
(* code or null.                                                           *)
(***************************************************************************)
IpapiReply ==
  /\ pc = "ipapi" /\ ~hung
  /\ \E reply \in GeoReplies :
       LET r == safeFetchJson(reply)
       IN IF r.thrown
            THEN Raised /\ UNCHANGED <<destinationPin, resolvedFrom, pinFromIp>>
            ELSE Resolved(PostalOf(r), IF Truthy(PostalOf(r)) THEN "pin" ELSE "nopin")
  /\ UNCHANGED <<cfg, route, query, req, rawIp, ip, tatDays, tatOutcome, hung, carrier,
                 now, debug>>

(***************************************************************************)
(* The carrier answers (or the call fails): getDelhiveryTatDays returns,   *)
(* and the handler computes the delivery date and responds.                *)
(***************************************************************************)
CarrierReply ==
  /\ pc = "carrier" /\ ~hung
  /\ \E reply \in HandlerCarrierReplies :
       LET r == safeFetchJson(reply)
           tat == TatOf(r)
       IN IF r.thrown
            THEN Raised /\ tatOutcome' = "raised" /\ UNCHANGED <<tatDays, now>>
            ELSE /\ tatDays' = tat
                 /\ tatOutcome' = "returned"
                 /\ IF ~Truthy(tat)
                      THEN /\ calls' = Settled("notat")
                           /\ Respond(FailRes)
                           /\ UNCHANGED <<now, caught>>
                      ELSE \E c \in Clocks :
                             LET deliveryDate == DeliveryDate(c, cfg.tz, tat)
                             IN /\ now' = c
                                /\ calls' = Settled("tat")
                                /\ IF deliveryDate.valid
                                     THEN /\ Respond(SuccessRes(destinationPin, resolvedFrom,
                                                tat, toISODate(deliveryDate),
                                                formatDate(deliveryDate, cfg.tz)))
                                          /\ UNCHANGED caught
                                     \* toISOString raises a RangeError
                                     ELSE caught' = TRUE /\ Respond(OnException)
  /\ UNCHANGED <<cfg, route, query, req, rawIp, ip, destinationPin, resolvedFrom,
                 pinFromIp, hung, carrier, debug>>

(***************************************************************************)
(* The provider awaited never answers: fetch is called without a timeout   *)
(* or an abort signal, so the await never settles.                         *)
(***************************************************************************)
ProviderSilent ==
  /\ pc \in {"ipinfo", "ipapi", "carrier"} /\ ~hung
  /\ hung' = TRUE
  /\ calls' = Settled("silent")
  /\ UNCHANGED <<cfg, pc, route, query, req, rawIp, ip, destinationPin, resolvedFrom,
                 pinFromIp, tatDays, tatOutcome, carrier, now, caught, res, responses,
                 debug>>

(***************************************************************************)
(* GET /ipdebug.                                                           *)
(***************************************************************************)
IpDebug ==
  /\ pc = "idle"
  /\ \E r \in Requests :
       /\ req' = r
       /\ debug' = [sent |-> TRUE, x_real_ip |-> r.xreal, x_forwarded_for |-> r.xff,
                    cf_connecting_ip |-> r.cf, detected_ip |-> getClientIp(r),
                    req_ip |-> r.ip]
  /\ route' = "ipdebug"
  /\ pc' = "done"
  /\ UNCHANGED <<cfg, query, rawIp, ip, destinationPin, resolvedFrom, pinFromIp, tatDays,
                 tatOutcome, calls, hung, carrier, now, caught, res, responses>>

Next == EddRequest \/ IpinfoReply \/ IpapiReply \/ CarrierReply \/ ProviderSilent \/ IpDebug

Spec == Init /\ [][Next]_vars

(***************************************************************************)
(* getDelhiveryTatDays on its own, run on every answer of the carrier.     *)
(***************************************************************************)
TatInit ==
  /\ cfg \in [token : {FALSE}, tz : {0}]
  /\ pc = "tat_in"
  /\ route = "none"
  /\ query = JsUndef
  /\ req = NoRequest
  /\ rawIp = JsUndef
  /\ ip = JsUndef
  /\ destinationPin = ValidPinText
  /\ resolvedFrom = ""
  /\ pinFromIp = JsUndef
  /\ tatDays = JsUndef
  /\ tatOutcome = "none"
  /\ calls = <<Call("carrier", ValidPinText)>>
  /\ hung = FALSE
  /\ carrier \in CarrierReplies
  /\ now = NoClock
  /\ caught = FALSE
  /\ res = NoRes
  /\ responses = 0
  /\ debug = NoDebug

TatReturn ==
  /\ pc = "tat_in"
  /\ LET r == safeFetchJson(carrier)
     IN IF r.thrown
          THEN tatOutcome' = "raised" /\ calls' = Settled("raised") /\ UNCHANGED tatDays
          ELSE /\ tatOutcome' = "returned"
               /\ tatDays' = TatOf(r)
               /\ calls' = Settled(IF Truthy(TatOf(r)) THEN "tat" ELSE "notat")
  /\ pc' = "tat_out"
  /\ UNCHANGED <<cfg, route, query, req, rawIp, ip, destinationPin, resolvedFrom,
                 pinFromIp, hung, carrier, now, caught, res, responses, debug>>

TatSpec == TatInit /\ [][TatReturn]_vars

(***************************************************************************)
(* What the claims speak of, stated apart from the code's own helpers.     *)
(***************************************************************************)
GeoProviders == {"ipinfo", "ipapi"}

\* exactly six decimal digits
SixDigits(s) == Len(s) = PinLen /\ \A k \in 1..Len(s) : s[k] \in Digits

\* the text of a query parameter, empty when absent
QueryText(q) == IF q.t = "string" THEN q.s ELSE <<>>

\* the trimmed query parameter passes the 6-digit check
PinOk(q) == SixDigits(Trim(QueryText(q)))

CallsTo(tos) == {k \in DOMAIN calls : calls[k].to \in tos}

\* an address with the IPv4-mapped prefix and the %zone suffix stripped
StrippedAddress(s) ==
  LET t == Trim(s)
      n == Len(MappedPrefix)
      mapped == Len(t) >= n /\ \A k \in 1..n : t[k] = MappedPrefix[k]
      u == IF mapped THEN [k \in 1..(Len(t) - n) |-> t[k + n]] ELSE t
      zone == {k \in 1..Len(u) : u[k] = "%"}
  IN IF zone = {} THEN u
     ELSE [k \in 1..((CHOOSE z \in zone : \A w \in zone : z <= w) - 1) |-> u[k]]

\* a dotted quad: four decimal octets without leading zeros
IsOctet(s) ==
  /\ Len(s) \in 1..3
  /\ \A k \in 1..Len(s) : s[k] \in Digits
  /\ (Len(s) > 1 => s[1] # "0")
  /\ DecValue(s) <= 255

IsDottedQuad(s) == Len(Split(s, ".")) = 4 /\ \A k \in 1..4 : IsOctet(Split(s, ".")[k])

Octet(s, k) == DecValue(Split(s, ".")[k])

\* 127.0.0.1, ::1, 10.0.0.0/8, 192.168.0.0/16, 172.16.0.0 - 172.31.255.255
InPrivateRange(s) ==
  \/ s = <<":", ":", "1">>
  \/ /\ IsDottedQuad(s)
     /\ \/ <<Octet(s, 1), Octet(s, 2), Octet(s, 3), Octet(s, 4)>> = <<127, 0, 0, 1>>
        \/ Octet(s, 1) = 10
        \/ Octet(s, 1) = 192 /\ Octet(s, 2) = 168
        \/ Octet(s, 1) = 172 /\ Octet(s, 2) \in 16..31

\* the calendar, day by day
IsLeap(y) == (y % 4 = 0 /\ y % 100 # 0) \/ y % 400 = 0

DaysInMonth(y, m) ==
  IF m = 2 THEN (IF IsLeap(y) THEN 29 ELSE 28)
  ELSE IF m \in {4, 6, 9, 11} THEN 30 ELSE 31

NextWeekday(wd) ==
  LET k == CHOOSE j \in 1..7 : WeekdayNames[j] = wd IN WeekdayNames[(k % 7) + 1]

NextDay(c) ==
  IF c.d < DaysInMonth(c.y, c.m)
    THEN [y |-> c.y, m |-> c.m, d |-> c.d + 1, wd |-> NextWeekday(c.wd)]
  ELSE IF c.m < 12 THEN [y |-> c.y, m |-> c.m + 1, d |-> 1, wd |-> NextWeekday(c.wd)]
  ELSE [y |-> c.y + 1, m |-> 1, d |-> 1, wd |-> NextWeekday(c.wd)]

RECURSIVE AddDays(_, _)
AddDays(c, n) == IF n = 0 THEN c ELSE AddDays(NextDay(c), n - 1)

IsoText(c) == Pad(c.y, 4) \o <<"-">> \o Pad(c.m, 2) \o <<"-">> \o Pad(c.d, 2)

LabelOf(c) == [weekday |-> c.wd, day |-> Pad(c.d, 2), month |-> MonthNames[c.m]]

\* the first entry of a comma-separated chain
FirstEntry(s) ==
  LET commas == {k \in 1..Len(s) : s[k] = ","}
  IN IF commas = {} THEN s
     ELSE [k \in 1..((CHOOSE z \in commas : \A w \in commas : z <= w) - 1) |-> s[k]]

\* the first member of a sequence of strings that is not empty, else empty
RECURSIVE FirstNonEmpty(_)
FirstNonEmpty(ss) ==
  IF ss = <<>> THEN <<>>
  ELSE IF Head(ss) # <<>> THEN Head(ss) ELSE FirstNonEmpty(Tail(ss))

\* the text of a header or of the peer address, empty when absent
Text(v) == IF v.t = "string" THEN v.s ELSE <<>>

(***************************************************************************)
(* C1.  Every response of GET /edd that is not the success payload is the  *)
(* response HTTP 200 {ok: false, message: "Please enter pincode."}, with   *)
(* no other field, also after an exception; no response has another status.*)
(***************************************************************************)
C1_UniformFailure ==
  /\ responses <= 1
  /\ res.sent =>
       /\ res.status = 200
       /\ ~res.ok => /\ res.message = "Please enter pincode."
                     /\ res.pincode = <<>> /\ res.resolved_from = ""
                     /\ res.tat_days = JsUndef /\ res.edd = <<>>
                     /\ res.label = NoLabel
  /\ (caught /\ pc = "done") => res.sent /\ ~res.ok

\* a failure response sent from the catch block, after a call raised
C1_Witness ==
  /\ caught /\ res.sent /\ ~res.ok /\ res.status = 200
  /\ \E k \in DOMAIN calls : calls[k].out = "raised"

(***************************************************************************)
(* C2.  The client address is extracted exactly when the trimmed pin fails *)
(* the 6-digit check, and the lookup that follows calls a geolocation      *)
(* provider first (always so for a public IPv4 address; an empty or        *)
(* private address ends the lookup, see C8); with a valid pin no address   *)
(* is read and no geolocation provider is called;                          *)
(* a success response says "query" exactly when its pincode is the query's *)
(* pin and "ip" exactly when it is the one ipToPincode returned.           *)
(***************************************************************************)
C2_IpOnlyForInvalidPin ==
  route = "edd" =>
    /\ (rawIp # JsUndef) <=> ~PinOk(query)
    /\ PinOk(query) => CallsTo(GeoProviders) = {}
    /\ (~PinOk(query) /\ calls # <<>>) => calls[1].to \in GeoProviders
    /\ (~PinOk(query) /\ IsDottedQuad(rawIp.s) /\ ~InPrivateRange(rawIp.s)) =>
         CallsTo(GeoProviders) # {}
    /\ (res.sent /\ res.ok) =>
         /\ res.resolved_from \in {"query", "ip"}
         /\ res.resolved_from = "query" <=> PinOk(query)
         /\ res.resolved_from = "ip" <=> ~PinOk(query)
         /\ res.resolved_from = "query" => res.pincode = Trim(QueryText(query))
         /\ res.resolved_from = "ip" =>
              /\ res.pincode = pinFromIp.s
              /\ \E k \in CallsTo(GeoProviders) : calls[k].out = "pin"

\* a success from a padded valid pin, no address read, no provider called
C2_Witness ==
  /\ res.sent /\ res.ok /\ res.resolved_from = "query"
  /\ query.s # Trim(query.s)
  /\ rawIp = JsUndef /\ CallsTo(GeoProviders) = {}

(***************************************************************************)
(* C3.  getDelhiveryTatDays never raises and returns null or a finite      *)
(* number that is not negative; tat_days of a success response is a finite *)
(* number that is not negative.                                            *)
(***************************************************************************)
C3_TatNonNegativeFinite ==
  /\ tatOutcome # "raised"
  /\ tatOutcome = "returned" =>
       tatDays = JsNull \/ (tatDays.t = "number" /\ tatDays.i >= 0)
  /\ (res.sent /\ res.ok) => res.tat_days.t = "number" /\ res.tat_days.i >= 0

(***************************************************************************)
(* C4.  The transit-day count is the number of the first of tat, data.tat, *)
(* response.tat whose value is numeric and not NaN: a value that is not    *)
(* numeric in an earlier shape does not keep a later numeric one from      *)
(* being returned.                                                         *)
(***************************************************************************)
IsNumeric(v) ==
  \/ v.t = "number"
  \/ v.t = "string" /\ Trim(v.s) # <<>> /\ StringToNumber(v.s).t = "number"

Shapes(doc) == <<GetTat(doc), GetSubTat(doc, doc.data), GetSubTat(doc, doc.response)>>

C4_FirstNumericShapeWins ==
  (pc = "tat_out" /\ carrier.kind = "response" /\ carrier.ok /\ carrier.text = "json"
     /\ carrier.doc.t = "object") =>
    \A k \in 1..3 :
      (IsNumeric(Shapes(carrier.doc)[k])
         /\ \A j \in 1..(k - 1) : ~IsNumeric(Shapes(carrier.doc)[j]))
      => tatOutcome = "returned" /\ tatDays = ToNumber(Shapes(carrier.doc)[k])

(***************************************************************************)
(* C5.  For a request read on local day D at local hour h and a transit    *)
(* count t >= 1, edd is the date D + t when h < 15 and D + 1 + t when      *)
(* h >= 15, in every zone, and the label names the same date.              *)
(***************************************************************************)
C5_DeliveryDateRule ==
  (res.sent /\ res.ok /\ tatDays.t = "number" /\ ~tatDays.h /\ tatDays.i >= 1) =>
    LET day == [y |-> now.y, m |-> now.m, d |-> now.d, wd |-> now.wd]
        due == AddDays(day, tatDays.i + (IF now.hh >= CutoffHour THEN 1 ELSE 0))
    IN res.edd = IsoText(due) /\ res.label = LabelOf(due)

(***************************************************************************)
(* C6.  ipToPincode calls ipinfo.io first (only with a token), then        *)
(* ipapi.co; the first valid postal code wins and no later provider is     *)
(* called; it ends without a postal code only after every configured       *)
(* provider was called, also when the first one is unreachable.            *)
(***************************************************************************)
C6_FallbackChain ==
  LET geo == CallsTo(GeoProviders)
      ended == pc \in {"carrier", "done"} /\ route = "edd" /\ ~PinOk(query)
                 /\ ~(StrippedAddress(rawIp.s) = <<>> \/ InPrivateRange(StrippedAddress(rawIp.s)))
  IN /\ \A k \in geo : calls[k].to = "ipinfo" => cfg.token /\ k = 1
     /\ \A k \in geo : calls[k].to = "ipapi" =>
          IF cfg.token THEN k = 2 /\ calls[1].to = "ipinfo" /\ calls[1].out # "pin"
          ELSE k = 1
     /\ \A k \in geo : calls[k].out = "pin" => \A j \in geo : j <= k
     /\ (ended /\ \A k \in geo : calls[k].out # "pin") =>
          /\ \E k \in geo : calls[k].to = "ipapi"
          /\ cfg.token => \E k \in geo : calls[k].to = "ipinfo"

(***************************************************************************)
(* C7.  The carrier is called at most once per request, after the postal   *)
(* code is resolved (every geolocation call has settled, none follows),    *)
(* and with a destination of exactly 6 decimal digits, from the query or   *)
(* from a provider; the pincode of a success response is 6 decimal digits. *)
(***************************************************************************)
C7_CarrierGetsValidPin ==
  /\ Cardinality(CallsTo({"carrier"})) <= 1
  /\ \A k \in CallsTo({"carrier"}) :
       /\ SixDigits(calls[k].arg)
       /\ calls[k].arg = destinationPin
       /\ k = Len(calls)
       /\ \A j \in 1..(k - 1) : calls[j].to \in GeoProviders /\ calls[j].out \in {"pin", "nopin"}
       /\ resolvedFrom = "ip" => pinFromIp = JsStr(calls[k].arg) /\ calls[k - 1].out = "pin"
       /\ resolvedFrom = "query" => k = 1 /\ calls[k].arg = Trim(QueryText(query))
  /\ (res.sent /\ res.ok) => SixDigits(res.pincode) /\ CallsTo({"carrier"}) # {}

\* a success whose pincode a geolocation provider supplied
C7_Witness ==
  /\ res.sent /\ res.ok /\ res.resolved_from = "ip"
  /\ Len(calls) = 3 /\ calls[3].to = "carrier" /\ calls[3].arg = PostalText

(***************************************************************************)
(* C8.  When the client address, with the IPv4-mapped prefix and the %zone *)
(* suffix stripped, is empty, 127.0.0.1, ::1, or in 10.0.0.0/8,            *)
(* 192.168.0.0/16 or 172.16.0.0 - 172.31.255.255, the handler sends the    *)
(* failure response and makes no outbound call; a geolocation provider is  *)
(* only ever called with a stripped address that is none of these; 8.8.8.8 *)
(* is not filtered.                                                        *)
(***************************************************************************)
C8_NoPrivateAddressLeaves ==
  (route = "edd" /\ rawIp # JsUndef) =>
    LET a == StrippedAddress(rawIp.s)
    IN /\ (a = <<>> \/ InPrivateRange(a)) =>
            calls = <<>> /\ pc = "done" /\ res.sent /\ ~res.ok /\ res.status = 200
       /\ \A k \in CallsTo(GeoProviders) :
            calls[k].arg = a /\ a # <<>> /\ ~InPrivateRange(a)
       /\ a = Dotted(8, 8, 8, 8) => calls # <<>> /\ calls[1].to \in GeoProviders

\* an IPv4-mapped address of the last private 172 block, answered with the
\* failure response and no call
C8_Witness ==
  /\ route = "edd" /\ rawIp = JsStr(MappedPrefix \o Dotted(172, 31, 0, 1))
  /\ calls = <<>> /\ res.sent /\ ~res.ok

(***************************************************************************)
(* C9 as claimed.  getClientIp returns the first non-empty candidate of    *)
(* x-real-ip, cf-connecting-ip, the first x-forwarded-for entry, the peer  *)
(* address; empty only when all of them are absent or empty.               *)
(***************************************************************************)
C9_ClaimedOrder ==
  debug.sent =>
    debug.detected_ip =
      FirstNonEmpty(<<Trim(Text(req.xreal)), Trim(Text(req.cf)),
                      Trim(FirstEntry(Text(req.xff))), Trim(Text(req.ip)),
                      Trim(Text(req.remote))>>)

(***************************************************************************)
(* C9 as amended.  getClientIp takes the first source that is present and  *)
(* not the empty string, in the order x-real-ip, x-forwarded-for,          *)
(* cf-connecting-ip, req.ip, the socket's remote address, and returns it   *)
(* trimmed, for x-forwarded-for its first comma-separated entry trimmed    *)
(* (empty when that entry is empty); it returns the empty string when no   *)
(* source is present and non-empty.                                        *)
(***************************************************************************)
C9_DocumentedOrder ==
  debug.sent =>
    LET sources == <<Text(req.xreal), Text(req.xff), Text(req.cf), Text(req.ip),
                      Text(req.remote)>>
        present == {k \in 1..5 : sources[k] # <<>>}
        first == CHOOSE k \in present : \A j \in present : k <= j
    IN debug.detected_ip =
         IF present = {} THEN <<>>
         ELSE IF first = 2 THEN Trim(FirstEntry(sources[2]))
         ELSE Trim(sources[first])

\* x-forwarded-for and cf-connecting-ip both set, without x-real-ip: the
\* forwarded-for entry is returned
C9_Witness ==
  /\ debug.sent /\ ~Truthy(req.xreal)
  /\ req.xff = JsStr(OtherPublicText) /\ req.cf = JsStr(PublicText)
  /\ debug.detected_ip = OtherPublicText

(***************************************************************************)
(* C10.  Every /edd request gets its one response: a request not yet       *)
(* answered can always take a further step (no call is awaited forever),   *)
(* and no endpoint is called twice in a request.                           *)
(***************************************************************************)
C10_AnsweredOnce ==
  /\ responses <= 1
  /\ \A j, k \in DOMAIN calls : calls[j].to = calls[k].to => j = k
  /\ (route = "edd" /\ ~res.sent) => ENABLED Next

====
